---- MODULE Spec2Model ----
(***************************************************************************)
(* Model of event-bus/src/eventBus.ts: the EventBusService message broker. *)
(*                                                                         *)
(* Node runs every socket.io handler to completion on one thread, so each  *)
(* handler (register_service, publish_event, disconnect) is one action.    *)
(* connectedServices is a JavaScript Map: it iterates in insertion order   *)
(* and Map.set on an existing key keeps the key's position, so it is       *)
(* modelled as a sequence of entries.                                      *)
(***************************************************************************)
EXTENDS Integers, Sequences, FiniteSets, TLC

\* ------------------------------------------------------------------ bounds

\* Number of publish_event messages the hub routes in one behaviour.
MaxPublish == 2

\* ------------------------------------------------------------- value sets

\* socket.id values handed out by socket.io (never reused).
SocketIds == {"s1", "s2", "s3"}

\* The JavaScript value undefined (a missing property).
Undefined == "<undefined>"

\* Two of the three service roles of EventMessage.source / EventMessage.target
\* (lines 7-8); "saga-middleware" is routed like these two.
Roles == {"react-app", "express-server"}

\* The reserved target of EventMessage.target.
BroadcastTarget == "broadcast"

\* serviceType is typed string and never validated: any value is stored,
\* also one that is no role.
ServiceTypes == Roles \cup {BroadcastTarget}

\* A payload that is null or missing altogether.
NullPayload == [isNull |-> TRUE]

\* The data argument of a register_service event (serviceName is only logged).
RegisterPayloads == {NullPayload} \cup [isNull : {FALSE}, serviceType : ServiceTypes]

\* A target value that is no role and not the broadcast target.
UnknownTarget == "unknown-service"

\* target is optional and never validated.
Targets == Roles \cup {BroadcastTarget, Undefined, UnknownTarget}

\* EventMessage (the fields the hub never reads take one value each).
EventMessage ==
    [isNull    : {FALSE},
     type      : {"state_update"},
     source    : {"react-app"},
     target    : Targets,
     data      : {"payload"},
     messageId : {"m"},
     timestamp : {0},
     threadId  : {Undefined}]

\* The message argument of a publish_event event.
PublishPayloads == {NullPayload} \cup EventMessage

\* JavaScript truthiness of a string-or-undefined value.
Truthy(v) == v \notin {Undefined, ""}

\* ------------------------------------------------------------------ state

VARIABLES
    sockets,            \* socket.io: socket.id -> "none" | "connected" | "disconnected"
    connectedServices,  \* the Map, as a sequence of [socketId, serviceType] in insertion order
    inbox,              \* socket.id -> the publish events emitted on that socket, in emit order
    received,           \* number of publish_event messages handed to routeMessage so far
    running,            \* the Node process is alive
    last,               \* what the latest handler did (its emits, its log lines, its outcome)
    rereg               \* the register_service event that last changed a socket's role,
                        \* while that socket keeps the role (followed by SpecReregister only)

vars == <<sockets, connectedServices, inbox, received, running, last, rereg>>

\* No socket.
NoSocket == "-"

\* No role-changing register_service event is in force.
NoRereg == [socketId |-> NoSocket, from |-> "-"]

\* The record of a handler run that emits nothing and returns normally.
\*   socketId : the socket of a publish_event
\*   message  : its message
\*   emitted  : the socket.emit('event_received', message) calls that returned, in order
\*   warning  : the WARNING line logged
\*   threw    : an exception left the handler
\*   failedOn : the socket whose emit threw
Quiet(op) ==
    [op |-> op, socketId |-> NoSocket, message |-> NullPayload, emitted |-> <<>>,
     warning |-> "none", threw |-> FALSE, failedOn |-> NoSocket]

\* The record of a handler run that threw before doing anything.
Thrown(op) == [Quiet(op) EXCEPT !.threw = TRUE]

\* --------------------------------------------------------- Map operations

\* Index of the entry of key id, 0 when the Map has no such key.
IndexOf(services, id) ==
    IF \E i \in 1..Len(services) : services[i].socketId = id
    THEN CHOOSE i \in 1..Len(services) : services[i].socketId = id
    ELSE 0

\* Map.has
Has(services, id) == IndexOf(services, id) # 0

\* Map.keys, as a set
Keys(services) == {services[i].socketId : i \in 1..Len(services)}

\* Map.get(id).serviceType
TypeOf(services, id) == services[IndexOf(services, id)].serviceType

\* MapSet that replaces the whole Map by the one entry.
MapSetAlone(services, id, serviceType) ==
    <<[socketId |-> id, serviceType |-> serviceType]>>

\* MapSet that leaves an existing entry as it is.
MapSetKeepsFirst(services, id, serviceType) ==
    IF Has(services, id)
    THEN services
    ELSE Append(services, [socketId |-> id, serviceType |-> serviceType])

\* MapSet that appends an entry whether or not the key has one.
MapSetAppend(services, id, serviceType) ==
    Append(services, [socketId |-> id, serviceType |-> serviceType])

\* Map.set: overwrite in place, or append a new entry.
MapSet(services, id, serviceType) ==
    LET entry == [socketId |-> id, serviceType |-> serviceType]
    IN  IF Has(services, id)
        THEN [services EXCEPT ![IndexOf(services, id)] = entry]
        ELSE Append(services, entry)

\* MapDelete that removes nothing.
MapDeleteNothing(services, id) == services

\* MapDelete that empties the Map.
MapDeleteClears(services, id) == <<>>

\* Map.delete: remove the entry if there is one.
MapDelete(services, id) ==
    SelectSeq(services, LAMBDA e : e.socketId # id)

\* ------------------------------------------------------------------ Init

Init ==
    /\ sockets = [s \in SocketIds |-> "none"]
    /\ connectedServices = <<>>
    /\ inbox = [s \in SocketIds |-> <<>>]
    /\ received = 0
    /\ running = TRUE
    /\ last = Quiet("start")
    /\ rereg = NoRereg

\* ------------------------------------------------------------ routeMessage

\* BroadcastMatch with the comparison inverted (=== for !==).
BroadcastMatchInverted(service, senderId) ==
    service.socketId = senderId

\* The test of the broadcast forEach callback.
BroadcastMatch(service, senderId) ==
    service.socketId # senderId

\* TargetedMatch without the serviceType comparison.
TargetedMatchAnyType(service, message, senderId) ==
    service.socketId # senderId

\* TargetedMatch without the sender comparison.
TargetedMatchAnySocket(service, message, senderId) ==
    service.serviceType = message.target

\* TargetedMatch that keeps a message from the services of the role it names
\* as its source.
TargetedMatchSourceChecked(service, message, senderId) ==
    /\ service.serviceType = message.target /\ service.socketId # senderId
    /\ service.serviceType # message.source

\* The test of the targeted forEach callback.
TargetedMatch(service, message, senderId) ==
    service.serviceType = message.target /\ service.socketId # senderId

\* EmitCall that stamps the message with the hub's own time.
EmitCallRestamped(service, message) ==
    [socketId |-> service.socketId, message |-> [message EXCEPT !.timestamp = 1]]

\* service.socket.emit('event_received', message): the call made on a socket.
EmitCall(service, message) ==
    [socketId |-> service.socketId, message |-> message]

\* BroadcastLoop that loses its place when it emits: the entry after an emit
\* is not visited (an iteration disturbed by a change of the collection).
RECURSIVE BroadcastLoopSkipping(_, _, _, _, _, _)
BroadcastLoopSkipping(services, i, message, senderId, throwing, acc) ==
    IF i > Len(services)
    THEN [emitted |-> acc, threw |-> FALSE, failedOn |-> NoSocket]
    ELSE IF BroadcastMatch(services[i], senderId)
         THEN BroadcastLoopSkipping(services, i + 2, message, senderId, throwing,
                                    Append(acc, EmitCall(services[i], message)))
         ELSE BroadcastLoopSkipping(services, i + 1, message, senderId, throwing, acc)

\* connectedServices.forEach of the broadcast branch, from entry i on.  An emit
\* on a socket of `throwing` throws: nothing catches it, so the exception
\* leaves forEach and the entries after it are not visited.
RECURSIVE BroadcastLoop(_, _, _, _, _, _)
BroadcastLoop(services, i, message, senderId, throwing, acc) ==
    IF i > Len(services)
    THEN [emitted |-> acc, threw |-> FALSE, failedOn |-> NoSocket]
    ELSE IF BroadcastMatch(services[i], senderId)
         THEN IF services[i].socketId \in throwing
              THEN [emitted |-> acc, threw |-> TRUE, failedOn |-> services[i].socketId]
              ELSE BroadcastLoop(services, i + 1, message, senderId, throwing,
                                 Append(acc, EmitCall(services[i], message)))
         ELSE BroadcastLoop(services, i + 1, message, senderId, throwing, acc)

\* connectedServices.forEach of the targeted branch, from entry i on.
RECURSIVE TargetedLoop(_, _, _, _, _, _)
TargetedLoop(services, i, message, senderId, throwing, acc) ==
    IF i > Len(services)
    THEN [emitted |-> acc, threw |-> FALSE, failedOn |-> NoSocket]
    ELSE IF TargetedMatch(services[i], message, senderId)
         THEN IF services[i].socketId \in throwing
              THEN [emitted |-> acc, threw |-> TRUE, failedOn |-> services[i].socketId]
              ELSE TargetedLoop(services, i + 1, message, senderId, throwing,
                                Append(acc, EmitCall(services[i], message)))
         ELSE TargetedLoop(services, i + 1, message, senderId, throwing, acc)

\* TargetedWarning that is logged whatever the count.
TargetedWarningAlways(deliveredCount) == "no target services"

\* The WARNING of the targeted branch, logged after forEach returned.
TargetedWarning(deliveredCount) ==
    IF deliveredCount = 0 THEN "no target services" ELSE "none"

\* routeMessage that routes a message without target as the log lines print
\* it (message.target || 'broadcast').
routeMessageDefaultBroadcast(services, message, senderId, throwing) ==
    IF message.target = BroadcastTarget \/ ~Truthy(message.target)
    THEN LET r == BroadcastLoop(services, 1, message, senderId, throwing, <<>>)
         IN  [emitted |-> r.emitted, threw |-> r.threw, failedOn |-> r.failedOn,
              warning |-> "none"]
    ELSE LET r == TargetedLoop(services, 1, message, senderId, throwing, <<>>)
         IN  [emitted |-> r.emitted, threw |-> r.threw, failedOn |-> r.failedOn,
              warning |-> IF r.threw THEN "none"
                          ELSE TargetedWarning(Len(r.emitted))]

\* routeMessage that keeps a note of having routed: it routes the first
\* message the hub receives and drops every later one.
routeMessageFirstOnly(services, message, senderId, throwing) ==
    IF received > 0
    THEN [emitted |-> <<>>, threw |-> FALSE, failedOn |-> NoSocket, warning |-> "none"]
    ELSE LET r == IF message.target = BroadcastTarget
                  THEN BroadcastLoop(services, 1, message, senderId, throwing, <<>>)
                  ELSE TargetedLoop(services, 1, message, senderId, throwing, <<>>)
         IN  [emitted |-> r.emitted, threw |-> r.threw, failedOn |-> r.failedOn,
              warning |-> "none"]

\* routeMessage that routes the messages of registered senders only.
routeMessageRegisteredOnly(services, message, senderId, throwing) ==
    IF ~Has(services, senderId) \/ ~Truthy(message.target)
    THEN [emitted |-> <<>>, threw |-> FALSE, failedOn |-> NoSocket,
          warning |-> IF Truthy(message.target) THEN "none" ELSE "no target"]
    ELSE LET r == IF message.target = BroadcastTarget
                  THEN BroadcastLoop(services, 1, message, senderId, throwing, <<>>)
                  ELSE TargetedLoop(services, 1, message, senderId, throwing, <<>>)
         IN  [emitted |-> r.emitted, threw |-> r.threw, failedOn |-> r.failedOn,
              warning |-> IF r.threw \/ message.target = BroadcastTarget THEN "none"
                          ELSE TargetedWarning(Len(r.emitted))]

\* routeMessage that matches serviceType first: "broadcast" is a target like
\* any other.
routeMessageRoleFirst(services, message, senderId, throwing) ==
    IF Truthy(message.target)
    THEN LET r == TargetedLoop(services, 1, message, senderId, throwing, <<>>)
         IN  [emitted |-> r.emitted, threw |-> r.threw, failedOn |-> r.failedOn,
              warning |-> IF r.threw THEN "none"
                          ELSE TargetedWarning(Len(r.emitted))]
    ELSE [emitted |-> <<>>, threw |-> FALSE, failedOn |-> NoSocket,
          warning |-> "no target"]

\* routeMessage(message, senderId): the emit calls that returned, in order, the
\* WARNING it logs, and whether an exception leaves it.
routeMessage(services, message, senderId, throwing) ==
    IF message.target = BroadcastTarget
    THEN LET r == BroadcastLoop(services, 1, message, senderId, throwing, <<>>)
         IN  [emitted |-> r.emitted, threw |-> r.threw, failedOn |-> r.failedOn,
              warning |-> "none"]
    ELSE IF Truthy(message.target)
         THEN LET r == TargetedLoop(services, 1, message, senderId, throwing, <<>>)
              IN  [emitted |-> r.emitted, threw |-> r.threw, failedOn |-> r.failedOn,
                   warning |-> IF r.threw THEN "none"
                               ELSE TargetedWarning(Len(r.emitted))]
         ELSE [emitted |-> <<>>, threw |-> FALSE, failedOn |-> NoSocket,
               warning |-> "no target"]

\* Emit that puts the message ahead of the ones the socket already holds.
EmitAhead(box, entry) == <<entry>> \o box

\* What an emit leaves on its socket: the hub's receive number of the publish
\* event and the socket that published it.
Emit(box, entry) == Append(box, entry)

\* The emit calls of one routeMessage call applied to the sockets, in order.
RECURSIVE Deliver(_, _, _, _)
Deliver(boxes, emitted, i, entry) ==
    IF i > Len(emitted)
    THEN boxes
    ELSE Deliver([boxes EXCEPT ![emitted[i].socketId] = Emit(@, entry)],
                 emitted, i + 1, entry)

\* A process without uncaughtException listener: the exception ends it.
UncaughtExceptionExits(alive) == FALSE

\* process.on('uncaughtException'): the listener logs the error, and a process
\* with such a listener keeps running.
UncaughtException(alive) == alive

\* ---------------------------------------------------------------- actions

\* io.on('connection'): socket.io opens a socket with a fresh id; the handler
\* only attaches the three listeners.
Connection(s) ==
    /\ running
    /\ sockets[s] = "none"
    /\ sockets' = [sockets EXCEPT ![s] = "connected"]
    /\ last' = Quiet("connection")
    /\ UNCHANGED <<connectedServices, inbox, received, running>>

\* socket.on('register_service'): reading data.serviceType of a null payload
\* throws before Map.set is called.
RegisterService(s, data) ==
    /\ running
    /\ sockets[s] = "connected"
    /\ IF data.isNull
       THEN /\ last' = Thrown("register_service")
            /\ running' = UncaughtException(running)
            /\ UNCHANGED connectedServices
       ELSE /\ connectedServices' = MapSet(connectedServices, s, data.serviceType)
            /\ last' = Quiet("register_service")
            /\ UNCHANGED running
    /\ UNCHANGED <<sockets, inbox, received>>

\* socket.on('publish_event'): reading message.source of a null payload throws
\* before routeMessage is called; otherwise routeMessage(message, socket.id).
PublishEvent(s, message, throwing) ==
    /\ running
    /\ sockets[s] = "connected"
    /\ IF message.isNull
       THEN /\ last' = Thrown("publish_event")
            /\ running' = UncaughtException(running)
            /\ UNCHANGED <<inbox, received>>
       ELSE LET r == routeMessage(connectedServices, message, s, throwing)
                entry == [seq |-> received + 1, sender |-> s]
            IN  /\ received < MaxPublish
                /\ received' = received + 1
                /\ inbox' = Deliver(inbox, r.emitted, 1, entry)
                /\ last' = [Quiet("publish_event") EXCEPT
                              !.socketId = s,
                              !.message = message, !.emitted = r.emitted,
                              !.warning = r.warning, !.threw = r.threw,
                              !.failedOn = r.failedOn]
                /\ running' = IF r.threw THEN UncaughtException(running) ELSE running
    /\ UNCHANGED <<sockets, connectedServices>>

\* socket.on('disconnect'): socket.io has marked the socket disconnected and
\* dispatches no further event of it.
Disconnect(s) ==
    /\ running
    /\ sockets[s] = "connected"
    /\ sockets' = [sockets EXCEPT ![s] = "disconnected"]
    /\ connectedServices' = MapDelete(connectedServices, s)
    /\ last' = Quiet("disconnect")
    /\ UNCHANGED <<inbox, received, running>>

\* ------------------------------------------------------- specifications

\* The events of services that follow the protocol: a role as serviceType, a
\* role, broadcast or nothing as target.
RolePayloads == [isNull : {FALSE}, serviceType : Roles]

RoleMessages == {m \in EventMessage : m.target # UnknownTarget}

\* Services that follow the protocol or send an event without payload; every
\* emit returns normally (socket.io queues the packet on the socket).
Next ==
    \/ \E s \in SocketIds : Connection(s) /\ UNCHANGED rereg
    \/ \E s \in SocketIds, data \in {NullPayload} \cup RolePayloads :
           RegisterService(s, data) /\ UNCHANGED rereg
    \/ \E s \in SocketIds, message \in {NullPayload} \cup RoleMessages :
           PublishEvent(s, message, {}) /\ UNCHANGED rereg
    \/ \E s \in SocketIds : Disconnect(s) /\ UNCHANGED rereg

Spec == Init /\ [][Next]_vars

\* The register_service events of services that register under one role or
\* under a serviceType that is no role, or send no payload.
OpaquePayloads ==
    {NullPayload} \cup [isNull : {FALSE}, serviceType : {"react-app", BroadcastTarget}]

\* Services that send malformed events as well: no payload, a serviceType that
\* is no role, a target that is neither a role nor broadcast.
NextOpaque ==
    \/ \E s \in SocketIds : Connection(s) /\ UNCHANGED rereg
    \/ \E s \in SocketIds, data \in OpaquePayloads :
           RegisterService(s, data) /\ UNCHANGED rereg
    \/ \E s \in SocketIds, message \in PublishPayloads :
           PublishEvent(s, message, {}) /\ UNCHANGED rereg
    \/ \E s \in SocketIds : Disconnect(s) /\ UNCHANGED rereg

SpecOpaque == Init /\ [][NextOpaque]_vars

\* rereg after register_service(data) on socket s: a register that changes the
\* role of s is noted, any other register of the noted socket ends the note.
NoteRegister(s, data) ==
    IF Has(connectedServices, s) /\ TypeOf(connectedServices, s) # data.serviceType
    THEN [socketId |-> s, from |-> TypeOf(connectedServices, s)]
    ELSE IF rereg.socketId = s THEN NoRereg ELSE rereg

\* rereg after the disconnect of socket s.
NoteDisconnect(s) ==
    IF rereg.socketId = s THEN NoRereg ELSE rereg

\* Protocol-following services, with the role changes followed in rereg.
NextReregister ==
    \/ \E s \in SocketIds : Connection(s) /\ UNCHANGED rereg
    \/ \E s \in SocketIds, data \in RolePayloads :
           RegisterService(s, data) /\ rereg' = NoteRegister(s, data)
    \/ \E s \in SocketIds, message \in RoleMessages :
           PublishEvent(s, message, {}) /\ UNCHANGED rereg
    \/ \E s \in SocketIds : Disconnect(s) /\ rereg' = NoteDisconnect(s)

SpecReregister == Init /\ [][NextReregister]_vars

\* Protocol-following services, with emits that may throw on any set of sockets.
NextEmitThrows ==
    \/ \E s \in SocketIds : Connection(s) /\ UNCHANGED rereg
    \/ \E s \in SocketIds, data \in RolePayloads :
           RegisterService(s, data) /\ UNCHANGED rereg
    \/ \E s \in SocketIds, message \in RoleMessages, throwing \in SUBSET SocketIds :
           PublishEvent(s, message, throwing) /\ UNCHANGED rereg
    \/ \E s \in SocketIds : Disconnect(s) /\ UNCHANGED rereg

SpecEmitThrows == Init /\ [][NextEmitThrows]_vars

\* Messages that differ in fields routeMessage only logs (source, messageId)
\* as well as in target.
VariedMessages ==
    [isNull    : {FALSE},
     type      : {"state_update"},
     source    : Roles,
     target    : {"react-app", BroadcastTarget},
     data      : {"payload"},
     messageId : {"m", "n"},
     timestamp : {0},
     threadId  : {Undefined}]

\* Protocol-following services that publish under any source and messageId.
NextVaried ==
    \/ \E s \in SocketIds : Connection(s) /\ UNCHANGED rereg
    \/ \E s \in SocketIds, data \in RolePayloads :
           RegisterService(s, data) /\ UNCHANGED rereg
    \/ \E s \in SocketIds, message \in VariedMessages :
           PublishEvent(s, message, {}) /\ UNCHANGED rereg
    \/ \E s \in SocketIds : Disconnect(s) /\ UNCHANGED rereg

SpecVaried == Init /\ [][NextVaried]_vars

\* ------------------------------------------------------------------ types

TypeOK ==
    /\ sockets \in [SocketIds -> {"none", "connected", "disconnected"}]
    /\ received \in 0..MaxPublish
    /\ running \in BOOLEAN
    /\ \A i \in 1..Len(connectedServices) :
           /\ connectedServices[i].socketId \in SocketIds
           /\ connectedServices[i].serviceType \in ServiceTypes

\* ----------------------------------------------------- reading the state

\* The sockets that hold a registry entry.
Registered == Keys(connectedServices)

\* The serviceType a registered socket holds.
RoleOf(c) == TypeOf(connectedServices, c)

\* The latest handler was a publish_event whose message reached routeMessage.
Published == last.op = "publish_event" /\ ~last.message.isNull

\* The sockets the latest handler emitted on.
EmittedTo == {last.emitted[i].socketId : i \in 1..Len(last.emitted)}

\* The positions of socket c's emits that belong to publish event number n.
EmitsOf(c, n) == {i \in 1..Len(inbox[c]) : inbox[c][i].seq = n}

\* The latest publish_event made exactly one emit on each socket of `recipients`
\* and none on any other socket.
EmittedExactlyOnceTo(recipients) ==
    /\ EmittedTo = recipients
    /\ Len(last.emitted) = Cardinality(recipients)
    /\ \A c \in SocketIds :
           Cardinality(EmitsOf(c, received)) = IF c \in recipients THEN 1 ELSE 0

\* ------------------------------------------------------------------ claims

\* C1 (targeted delivery): a publish_event of sender S whose target is a role R
\* (any value other than "broadcast" that is not empty) makes exactly one emit
\* on every registered socket other than S whose serviceType is R, and no emit
\* on any other socket.
TargetedDelivery ==
    (Published /\ Truthy(last.message.target) /\ last.message.target # BroadcastTarget)
    => EmittedExactlyOnceTo({c \in Registered :
                               RoleOf(c) = last.message.target /\ c # last.socketId})

\* Two sockets sharing the target role received a message of a registered
\* sender of another role.
TargetedDeliveryWitness ==
    /\ Published
    /\ last.message.target \in Roles
    /\ Cardinality(EmittedTo) = 2
    /\ last.socketId \in Registered
    /\ RoleOf(last.socketId) # last.message.target

\* C2 (broadcast delivery): a publish_event of sender S with target "broadcast"
\* makes exactly one emit on every registered socket other than S, whatever its
\* serviceType, and no emit on any other socket.
BroadcastDelivery ==
    (Published /\ last.message.target = BroadcastTarget)
    => EmittedExactlyOnceTo(Registered \ {last.socketId})

\* A broadcast reached two sockets of different roles, from a registered sender.
BroadcastDeliveryWitness ==
    /\ Published
    /\ last.message.target = BroadcastTarget
    /\ last.socketId \in Registered
    /\ \E c, d \in EmittedTo : RoleOf(c) # RoleOf(d)

\* C3 (no self-delivery): no emit of a message is ever made on the socket that
\* published it, in the latest handler and in the whole history of every socket.
NoSelfDelivery ==
    /\ Published => last.socketId \notin EmittedTo
    /\ \A c \in SocketIds : \A i \in 1..Len(inbox[c]) : inbox[c][i].sender # c

\* A sender registered under the role it targets published to that role, and
\* another socket of the role received the message; the sender itself holds an
\* earlier message, of another socket.
NoSelfDeliveryWitness ==
    /\ Published
    /\ last.socketId \in Registered
    /\ RoleOf(last.socketId) = last.message.target
    /\ EmittedTo # {}
    /\ inbox[last.socketId] # <<>>

\* C4 (no target): a publish_event whose message has no target makes no emit
\* on any socket whatever the registry holds, leaves the registry as it was,
\* logs the "no target" warning of the last branch (the branch that never
\* reads the registry) and returns normally, the process running on.
NoTargetNotRouted ==
    [][(last'.op = "publish_event" /\ ~last'.message.isNull
            /\ last'.message.target = Undefined)
       => /\ last'.emitted = <<>>
          /\ inbox' = inbox
          /\ connectedServices' = connectedServices
          /\ last'.warning = "no target"
          /\ ~last'.threw
          /\ running']_vars

\* A message without target was published while two other sockets were
\* registered, under different roles.
NoTargetNotRoutedWitness ==
    /\ Published
    /\ last.message.target = Undefined
    /\ \E c, d \in Registered \ {last.socketId} : RoleOf(c) # RoleOf(d)
    /\ running

\* The sockets socket.io holds open.
Connected == {c \in SocketIds : sockets[c] = "connected"}

\* The step is a register_service event of socket c that returned normally.
RegisterReturned(c) ==
    /\ last'.op = "register_service" /\ ~last'.threw
    /\ \E data \in RegisterPayloads : ~data.isNull /\ RegisterService(c, data)

\* The step is the disconnect event of socket c.
DisconnectProcessed(c) ==
    sockets[c] = "connected" /\ sockets'[c] = "disconnected"

NoDeliveryAfterDisconnect ==
    [][\A c \in SocketIds :
          sockets[c] = "disconnected"
          => /\ inbox'[c] = inbox[c]
             /\ (last'.op = "publish_event" /\ ~last'.message.isNull)
                   => /\ \A i \in 1..Len(last'.emitted) : last'.emitted[i].socketId # c
                      /\ ~last'.threw
                      /\ running']_vars

\* A socket received a message and disconnected; a later message that its
\* role or a broadcast would have brought it went to another socket only.
NoDeliveryAfterDisconnectWitness ==
    /\ Published
    /\ EmittedTo # {}
    /\ \E c \in SocketIds \ {last.socketId} :
           /\ sockets[c] = "disconnected"
           /\ inbox[c] # <<>>
           /\ \A i \in 1..Len(inbox[c]) : inbox[c][i].seq < received

\* C7 (re-registration), checked under SpecReregister: while the latest role
\* change of a socket C (from R1 to R2 # R1, by a second register_service on
\* the same socket) is in force, every publish_event of another socket with
\* target R2 is emitted on C, every one with target R1 is not, and every
\* broadcast is emitted on C as before the change.
ReregistrationTakesEffect ==
    (Published /\ rereg # NoRereg /\ last.socketId # rereg.socketId)
    => /\ rereg.socketId \in Registered
       /\ RoleOf(rereg.socketId) # rereg.from
       /\ last.message.target = RoleOf(rereg.socketId) => rereg.socketId \in EmittedTo
       /\ last.message.target = rereg.from => rereg.socketId \notin EmittedTo
       /\ last.message.target = BroadcastTarget => rereg.socketId \in EmittedTo

\* A socket that received a message under its first role changed its role,
\* and the next message to the new role, of another socket, was emitted on it.
ReregistrationTakesEffectWitness ==
    /\ Published
    /\ rereg # NoRereg
    /\ last.socketId # rereg.socketId
    /\ last.message.target = RoleOf(rereg.socketId)
    /\ rereg.socketId \in EmittedTo
    /\ Len(inbox[rereg.socketId]) = 2

\* The sockets routeMessage is to emit the latest message on.
Eligible ==
    IF last.message.target = BroadcastTarget
    THEN Registered \ {last.socketId}
    ELSE IF Truthy(last.message.target)
         THEN {c \in Registered : RoleOf(c) = last.message.target /\ c # last.socketId}
         ELSE {}

\* C8 (push-failure isolation), checked under SpecEmitThrows: when an emit
\* throws while a message is routed, every other eligible socket is still
\* emitted on and no exception leaves routeMessage.
PushFailureIsolation ==
    Published
    => /\ \A c \in Eligible : c \in EmittedTo \/ c = last.failedOn
       /\ ~last.threw

\* C9 (FIFO per sender): of two messages of the same sender emitted on the
\* same socket, the one the hub received first is emitted first.
FifoPerSender ==
    \A c \in SocketIds : \A i, j \in 1..Len(inbox[c]) :
        (i < j /\ inbox[c][i].sender = inbox[c][j].sender)
        => inbox[c][i].seq < inbox[c][j].seq

\* A socket holds two messages of one sender, and another socket, registered
\* or disconnected in between, holds only one of them.
FifoPerSenderWitness ==
    \E c, d \in SocketIds :
        /\ Len(inbox[c]) = 2
        /\ inbox[c][1].sender = inbox[c][2].sender
        /\ Len(inbox[d]) = 1

\* The register_service payloads whose serviceType is no role.
NoRolePayloads == [isNull : {FALSE}, serviceType : ServiceTypes \ Roles]

\* The step is an event of socket s that is malformed (no payload, a
\* serviceType that is no role, a target that is no role) or its disconnect.
MalformedOrDisconnect(s) ==
    \/ DisconnectProcessed(s)
    \/ /\ last'.threw
       /\ \/ RegisterService(s, NullPayload)
          \/ PublishEvent(s, NullPayload, {})
    \/ /\ last'.op = "register_service" /\ ~last'.threw
       /\ \E i \in 1..Len(connectedServices') :
              connectedServices'[i].serviceType \notin Roles
       /\ \E data \in NoRolePayloads : RegisterService(s, data)
    \/ /\ last'.op = "publish_event" /\ ~last'.threw
       /\ last'.socketId = s
       /\ last'.message.target = UnknownTarget

\* The step leaves the registry entry of every socket other than s as it was.
OthersUnchanged(s) ==
    \/ connectedServices' = connectedServices
    \/ \A c \in SocketIds \ {s} :
          /\ (c \in Keys(connectedServices')) = (c \in Registered)
          /\ c \in Registered => TypeOf(connectedServices', c) = RoleOf(c)

\* The latest handler was given a malformed event or a disconnect event (for
\* a serviceType that is no role: a register_service event, and the registry
\* holds such a serviceType).
AfterMalformedOrDisconnect ==
    \/ last.threw
    \/ last.op = "disconnect"
    \/ last.op = "register_service" /\ \E c \in Registered : RoleOf(c) \notin Roles
    \/ Published /\ last.message.target = UnknownTarget

\* Every event the transport can hand over for socket c can be handled.
Serving(c) ==
    /\ ENABLED Disconnect(c)
    /\ \A data \in RegisterPayloads : ENABLED RegisterService(c, data)
    /\ ENABLED PublishEvent(c, NullPayload, {})
    /\ received < MaxPublish
          => \A message \in EventMessage : ENABLED PublishEvent(c, message, {})

\* C10 (availability), checked under SpecOpaque: the process keeps running
\* whatever events the sockets send; after a malformed event (no payload, a
\* serviceType that is no role, a target that is no role) or a disconnect,
\* every event of every open socket can still be handled; and such an event
\* of one socket leaves the registry entry of every other socket as it was.
HubSurvives ==
    /\ [](running /\ (AfterMalformedOrDisconnect => \A c \in Connected : Serving(c)))
    /\ [][\A s \in SocketIds : OthersUnchanged(s) \/ ~MalformedOrDisconnect(s)]_vars

\* An event without payload made its handler throw while two sockets were
\* registered, one of them under a serviceType that is no role, and a socket
\* has disconnected; the process runs.
HubSurvivesWitness ==
    /\ last.threw
    /\ running
    /\ Cardinality(Registered) = 2
    /\ \E c \in Registered : RoleOf(c) = BroadcastTarget
    /\ \E c \in SocketIds : sockets[c] = "disconnected"

\* The step is a register_service event of socket c with payload data that
\* returned normally.
RegisterWith(c, data) ==
    /\ last'.op = "register_service" /\ ~last'.threw
    /\ RegisterService(c, data)

\* C11 (register is insert-or-overwrite): the registry never holds two entries
\* of one socket; a register_service event of socket C leaves C with the new
\* serviceType and the entry of every other socket as it was; and a second
\* register_service of C with the serviceType it already holds leaves the
\* whole registry as the first one left it.  (That two sockets may hold one
\* serviceType is the state RegisterOverwritesWitness describes.)
RegisterOverwrites ==
    /\ [](\A i, j \in 1..Len(connectedServices) :
             connectedServices[i].socketId = connectedServices[j].socketId => i = j)
    /\ [][\A c \in SocketIds : \A data \in RolePayloads :
            RegisterWith(c, data)
            => /\ c \in Keys(connectedServices')
               /\ TypeOf(connectedServices', c) = data.serviceType
               /\ \A d \in SocketIds \ {c} :
                      /\ (d \in Keys(connectedServices')) = (d \in Registered)
                      /\ d \in Registered => TypeOf(connectedServices', d) = RoleOf(d)
               /\ (c \in Registered /\ RoleOf(c) = data.serviceType)
                      => connectedServices' = connectedServices]_vars

\* A register_service event has just returned and three sockets are
\* registered, two of them under the same serviceType; the third, registered
\* first, holds a message.
RegisterOverwritesWitness ==
    /\ last.op = "register_service" /\ ~last.threw
    /\ Len(connectedServices) = 3
    /\ connectedServices[2].serviceType = connectedServices[3].serviceType
    /\ connectedServices[1].serviceType # connectedServices[2].serviceType
    /\ inbox[connectedServices[1].socketId] # <<>>

\* C12 (messages are forwarded unmodified), checked under SpecVaried: every
\* emit of a publish_event carries a message equal in every field (type,
\* source, target, data, messageId, timestamp, threadId) to the message of
\* that publish_event; and the hub emits nothing of its own: the emits on a
\* socket grow only in a publish_event handler, by emits of the message that
\* handler was given, published by an open socket.
ForwardedUnmodified ==
    /\ [](Published
          => \A i \in 1..Len(last.emitted) :
                 LET pushed == last.emitted[i].message
                 IN  /\ pushed = last.message
                     /\ pushed.type = last.message.type
                     /\ pushed.source = last.message.source
                     /\ pushed.target = last.message.target
                     /\ pushed.data = last.message.data
                     /\ pushed.messageId = last.message.messageId
                     /\ pushed.timestamp = last.message.timestamp
                     /\ pushed.threadId = last.message.threadId)
    /\ [][\A c \in SocketIds :
            \/ inbox'[c] = inbox[c]
            \/ /\ last'.op = "publish_event" /\ ~last'.message.isNull
               /\ sockets[last'.socketId] = "connected"
               /\ \E i \in 1..Len(last'.emitted) : last'.emitted[i].socketId = c
               /\ inbox'[c] = Append(inbox[c], [seq |-> received', sender |-> last'.socketId])]_vars

\* A message whose source is not the role of its sender, with the second
\* messageId, was emitted on two sockets.
ForwardedUnmodifiedWitness ==
    /\ Published
    /\ Len(last.emitted) = 2
    /\ last.message.messageId = "n"
    /\ last.socketId \in Registered
    /\ RoleOf(last.socketId) # last.message.source

\* C13 (routing is stateless and repeatable): a publish_event never adds,
\* removes or changes a registry entry; and when the same socket publishes the
\* same message twice in a row (no register_service or disconnect event in
\* between), the second one is emitted on the same sockets as the first.
RoutingRepeatable ==
    [][(last'.op = "publish_event" /\ ~last'.message.isNull)
       => /\ connectedServices' = connectedServices
          /\ (Published /\ last'.message = last.message /\ last'.socketId = last.socketId)
                => /\ last'.emitted = last.emitted
                   /\ {last'.emitted[i].socketId : i \in 1..Len(last'.emitted)} = EmittedTo]_vars

\* Two publish events of one sender have both been emitted on the same two
\* sockets and on no other, the second one being a broadcast.
RoutingRepeatableWitness ==
    /\ Published
    /\ received = 2
    /\ last.message.target = BroadcastTarget
    /\ Cardinality(EmittedTo) = 2
    /\ \A c \in EmittedTo :
           /\ Len(inbox[c]) = 2
           /\ inbox[c][1] = [seq |-> 1, sender |-> last.socketId]
           /\ inbox[c][2] = [seq |-> 2, sender |-> last.socketId]

\* The sockets a message of sender senderId is addressed to, given the
\* registry as one whole state.
EligibleIn(services, message, senderId) ==
    {c \in Keys(services) \ {senderId} :
        \/ message.target = BroadcastTarget
        \/ Truthy(message.target) /\ TypeOf(services, c) = message.target}

\* The step changes the registry entry of socket c at most.
OnlyEntryOf(c) ==
    \A d \in SocketIds \ {c} :
        /\ (d \in Keys(connectedServices')) = (d \in Registered)
        /\ d \in Registered => TypeOf(connectedServices', d) = RoleOf(d)

\* C14 (routing isolation): with the events of several sockets interleaved in
\* any order, the sockets one publish_event is emitted on are the ones
\* addressed in one single registry state, the registry as it is when the
\* handler runs (unchanged by it); and a step that changes the registry is
\* one register_service or disconnect event applied to the whole registry: it
\* changes the entry of its own socket only and no emit is made in it.
RoutingIsolation ==
    [][/\ (last'.op = "publish_event" /\ ~last'.message.isNull)
          => /\ connectedServices' = connectedServices
             /\ {last'.emitted[i].socketId : i \in 1..Len(last'.emitted)}
                   = EligibleIn(connectedServices, last'.message, last'.socketId)
             /\ Len(last'.emitted)
                   = Cardinality(EligibleIn(connectedServices, last'.message, last'.socketId))
       /\ connectedServices' # connectedServices
          => /\ inbox' = inbox
             /\ last'.emitted = <<>>
             /\ last'.op \in {"register_service", "disconnect"}
             /\ \E c \in SocketIds : sockets[c] = "connected" /\ OnlyEntryOf(c)]_vars

\* A broadcast was emitted on one socket, which holds two messages, after
\* another socket, which holds the first message of the same sender, had
\* disconnected: the events of three sockets are interleaved.
RoutingIsolationWitness ==
    /\ Published
    /\ last.message.target = BroadcastTarget
    /\ \E d \in SocketIds : EmittedTo = {d} /\ Len(inbox[d]) = 2
    /\ \E c \in SocketIds \ (EmittedTo \cup {last.socketId}) :
           /\ sockets[c] = "disconnected"
           /\ inbox[c] = <<[seq |-> 1, sender |-> last.socketId]>>

\* C15 (targeted send without recipient), checked under SpecOpaque: a
\* publish_event with a role as target, when no registered socket other than
\* the sender holds that role (the sender alone holds it, nobody holds it, or
\* the registry is empty), makes no emit, leaves the registry as it was and
\* returns normally, the process running on; and the "no target services
\* found" warning is logged exactly by the targeted publish events whose
\* delivered count is zero.
TargetedNoRecipient ==
    [][(last'.op = "publish_event" /\ ~last'.message.isNull)
       => LET targeted == Truthy(last'.message.target)
                            /\ last'.message.target # BroadcastTarget
          IN  /\ (targeted
                   /\ EligibleIn(connectedServices, last'.message, last'.socketId) = {})
                  => /\ last'.emitted = <<>>
                     /\ inbox' = inbox
                     /\ connectedServices' = connectedServices
                     /\ ~last'.threw
                     /\ running'
              /\ (last'.warning = "no target services")
                    = (targeted /\ Len(last'.emitted) = 0)]_vars

\* A socket published to the role it alone holds, another socket being
\* registered under another serviceType: nothing was emitted, the warning was
\* logged and the process runs.
TargetedNoRecipientWitness ==
    /\ Published
    /\ last.message.target \in Roles
    /\ last.socketId \in Registered
    /\ RoleOf(last.socketId) = last.message.target
    /\ \E c \in Registered : RoleOf(c) # last.message.target
    /\ last.emitted = <<>>
    /\ last.warning = "no target services"
    /\ ~last.threw
    /\ running

\* C16 (disconnect of an unregistered socket is a no-op): the disconnect event
\* of a socket that holds no registry entry returns normally and leaves every
\* entry and the size of the registry as they were; the disconnect event of a
\* registered socket returns normally and removes the entry of that socket
\* and no other, the other entries keeping their order.
DisconnectRemovesOwnEntry ==
    [][\A c \in SocketIds :
          DisconnectProcessed(c)
          => /\ last'.op = "disconnect" /\ ~last'.threw
             /\ running'
             /\ c \notin Registered
                  => /\ connectedServices' = connectedServices
                     /\ Len(connectedServices') = Len(connectedServices)
             /\ c \in Registered
                  => /\ c \notin Keys(connectedServices')
                     /\ Len(connectedServices') = Len(connectedServices) - 1
                     /\ OnlyEntryOf(c)
                     /\ \A i \in 1..Len(connectedServices') :
                            connectedServices'[i] =
                              connectedServices[IF i < IndexOf(connectedServices, c)
                                                THEN i ELSE i + 1]]_vars

\* A disconnect event has just been handled; the one socket that has
\* disconnected was never emitted on, and the two other sockets are
\* registered and hold a message each.
DisconnectRemovesOwnEntryWitness ==
    /\ last.op = "disconnect" /\ ~last.threw
    /\ running
    /\ \E c \in SocketIds :
           /\ sockets[c] = "disconnected" /\ inbox[c] = <<>>
           /\ Registered = SocketIds \ {c}
           /\ \A d \in Registered : inbox[d] # <<>>

\* C17 (registration is no precondition for sending): a publish_event of an
\* open socket that holds no registry entry is routed as that of a registered
\* sender is: with a role as target it is emitted once on every registered
\* socket of that role, with target "broadcast" once on every registered
\* socket; and no emit is ever made on a socket that holds no entry: an open
\* socket that has not registered holds no message.
UnregisteredSenderRouted ==
    /\ (Published /\ last.socketId \notin Registered)
       => /\ last.message.target = BroadcastTarget
               => EmittedExactlyOnceTo(Registered)
          /\ (Truthy(last.message.target) /\ last.message.target # BroadcastTarget)
               => EmittedExactlyOnceTo({c \in Registered : RoleOf(c) = last.message.target})
          /\ ~last.threw
    /\ Published => EmittedTo \subseteq Registered
    /\ \A c \in SocketIds :
           (sockets[c] # "disconnected" /\ c \notin Registered) => inbox[c] = <<>>

\* An open socket that holds no entry and no message published to a role, and
\* the message was emitted on the two sockets of that role; one of them had
\* published the message before, which the unregistered socket did not get.
UnregisteredSenderRoutedWitness ==
    /\ Published
    /\ sockets[last.socketId] = "connected"
    /\ last.socketId \notin Registered
    /\ inbox[last.socketId] = <<>>
    /\ last.message.target \in Roles
    /\ Cardinality(EmittedTo) = 2
    /\ \E c, d \in EmittedTo : inbox[c] = <<[seq |-> 1, sender |-> d], [seq |-> 2, sender |-> last.socketId]>>

\* The messages that have the target of message and any type, source, data,
\* messageId, timestamp and threadId.
SameTarget(message) ==
    [isNull    : {FALSE},
     type      : {"state_update", "command"},
     source    : Roles \cup {"saga-middleware"},
     target    : {message.target},
     data      : {"payload", "other"},
     messageId : {"m", "n"},
     timestamp : {0, 1},
     threadId  : {Undefined, "t"}]

\* The sockets routeMessage emits message on, for sender senderId and the
\* registry as it is.
RecipientsOf(message, senderId) ==
    LET r == routeMessage(connectedServices, message, senderId, {})
    IN  {r.emitted[i].socketId : i \in 1..Len(r.emitted)}

\* C18 (recipients depend on target, sender and registry only), checked under
\* SpecVaried: the sockets a publish_event is emitted on are the sockets any
\* message of the same target would be emitted on, published by the same
\* socket over the same registry, whatever its type, source, data, messageId,
\* timestamp and threadId; in particular whatever its source, which is not
\* compared with the serviceType of the sender.
RecipientsIgnoreOtherFields ==
    Published
    => \A other \in SameTarget(last.message) :
           RecipientsOf(other, last.socketId) = EmittedTo

\* A socket registered as express-server published a message to react-app
\* that names react-app as its source, and the message was emitted.
RecipientsIgnoreOtherFieldsWitness ==
    /\ Published
    /\ last.socketId \in Registered
    /\ RoleOf(last.socketId) = "express-server"
    /\ last.message.source = "react-app"
    /\ last.message.target = "react-app"
    /\ EmittedTo # {}

\* The register_service payload whose serviceType is the broadcast target.
BroadcastPayload == [isNull |-> FALSE, serviceType |-> BroadcastTarget]

\* C19 (the broadcast target takes precedence over serviceType matching),
\* checked under SpecOpaque: a register_service event with serviceType
\* "broadcast" returns normally and stores that value; while a socket holds
\* that serviceType a message with target "broadcast" is still emitted once
\* on every registered socket other than the sender; and no message of any
\* target, of any sender, is emitted on that socket without being emitted on
\* every other registered socket but the sender.
BroadcastTakesPrecedence ==
    /\ []((Published /\ last.message.target = BroadcastTarget
             /\ \E c \in Registered : RoleOf(c) = BroadcastTarget)
          => EmittedExactlyOnceTo(Registered \ {last.socketId}))
    /\ [](\A c \in Registered :
             RoleOf(c) = BroadcastTarget
             => \A s \in SocketIds \ {c} : \A message \in EventMessage :
                    c \in RecipientsOf(message, s)
                    => RecipientsOf(message, s) = Registered \ {s})
    /\ [][\A c \in SocketIds :
            RegisterWith(c, BroadcastPayload)
            => /\ c \in Keys(connectedServices')
               /\ TypeOf(connectedServices', c) = BroadcastTarget
               /\ running']_vars

\* A message with target "broadcast" was emitted on a socket registered under
\* the serviceType "broadcast" and on a socket registered as react-app.
BroadcastTakesPrecedenceWitness ==
    /\ Published
    /\ last.message.target = BroadcastTarget
    /\ \E c, d \in EmittedTo :
           /\ RoleOf(c) = BroadcastTarget
           /\ RoleOf(d) = "react-app"

====
